---- MODULE Spec2Model ----
(***************************************************************************)
(* Model of the retrieval-and-grounding pipeline of the AI Style Advisor   *)
(* (src/app.py): find_products_by_criteria and the "Find me an outfit!"    *)
(* query handler.                                                          *)
(*                                                                         *)
(* Text that the program lower-cases or searches for substrings (gender,   *)
(* category, color, tags) is a tuple of one-character strings, so that     *)
(* str.lower() and the `in` substring test are computed character by       *)
(* character.  Product names are only ever compared with ==, and are       *)
(* strings.  Prices are whole numbers of PLN.                              *)
(***************************************************************************)
EXTENDS Integers, Sequences, FiniteSets, TLC

VARIABLES
    products_data,          \* the catalog loaded at start-up (app.py:28-31)
    pc,                     \* position of the running call / handler
    criteria,               \* argument of find_products_by_criteria
    num_results,            \* argument of find_products_by_criteria
    potential_products,     \* value returned by find_products_by_criteria
    user,                   \* the widgets' values (app.py:99-122)
    calls,                  \* number of model.generate_content invocations
    ai_raw_response,        \* response.text (app.py:228)
    suggested_products_from_ai, \* parsed_data.get("suggested_products", [])
    idx,                    \* position of the grounding loop (app.py:250)
    display_products,       \* app.py:246
    total_cost_ai_suggested,    \* app.py:245
    shown,                  \* what st.* has rendered, in order
    products_to_process,    \* generate_tags_with_gemini.py:97
    updated_products        \* generate_tags_with_gemini.py:100

\* the state of the offline tagging script
tagVars == <<products_to_process, updated_products>>

vars == <<products_data, pc, criteria, num_results, potential_products, user,
          calls, ai_raw_response, suggested_products_from_ai, idx,
          display_products, total_cost_ai_suggested, shown,
          products_to_process, updated_products>>

(***************************************************************************)
(* Bounds of the model.                                                    *)
(***************************************************************************)
MaxCatalog == 2
MaxLimit == 2
MaxSuggested == 2
MaxSelected == 1
MaxTags == 2

(***************************************************************************)
(* Text.                                                                   *)
(***************************************************************************)
\* str.lower() on one character
LowerChar(c) ==
    CASE c = "A" -> "a" [] c = "B" -> "b" [] c = "C" -> "c" [] c = "D" -> "d"
      [] c = "E" -> "e" [] c = "F" -> "f" [] c = "G" -> "g" [] c = "H" -> "h"
      [] c = "I" -> "i" [] c = "J" -> "j" [] c = "K" -> "k" [] c = "L" -> "l"
      [] c = "M" -> "m" [] c = "N" -> "n" [] c = "O" -> "o" [] c = "P" -> "p"
      [] c = "Q" -> "q" [] c = "R" -> "r" [] c = "S" -> "s" [] c = "T" -> "t"
      [] c = "U" -> "u" [] c = "V" -> "v" [] c = "W" -> "w" [] c = "X" -> "x"
      [] c = "Y" -> "y" [] c = "Z" -> "z" [] OTHER -> c

\* str.lower()
Lower(s) == [i \in 1..Len(s) |-> LowerChar(s[i])]

\* `needle in hay` on two str values
Contains(needle, hay) ==
    \E i \in 0..(Len(hay) - Len(needle)) :
        SubSeq(hay, i + 1, i + Len(needle)) = needle

\* the empty string, which also stands for None: both are falsy, and the
\* code tests truthiness before it reads the value
None == <<>>

sAny == <<"A", "n", "y">>
sANY == <<"A", "N", "Y">>
sFullOutfit == <<"F", "u", "l", "l", " ", "o", "u", "t", "f", "i", "t">>
sDress == <<"D", "r", "e", "s", "s">>
sdress == <<"d", "r", "e", "s", "s">>
sJeans == <<"J", "e", "a", "n", "s">>
sWomen == <<"W", "o", "m", "e", "n">>
swomen == <<"w", "o", "m", "e", "n">>
sMen == <<"M", "e", "n">>
sRed == <<"R", "e", "d">>
sred == <<"r", "e", "d">>
sDarkRed == <<"D", "a", "r", "k", " ", "R", "e", "d">>
sBlue == <<"B", "l", "u", "e">>
sParty == <<"P", "a", "r", "t", "y">>
sPARTY == <<"P", "A", "R", "T", "Y">>
scasual == <<"c", "a", "s", "u", "a", "l">>
sClassic == <<"C", "l", "a", "s", "s", "i", "c">>
sclassic == <<"c", "l", "a", "s", "s", "i", "c">>
sboho == <<"b", "o", "h", "o">>
sUnspecifiedGender ==
    <<"u", "n", "s", "p", "e", "c", "i", "f", "i", "e", "d", " ",
      "g", "e", "n", "d", "e", "r">>
sUnspecifiedCategory ==
    <<"u", "n", "s", "p", "e", "c", "i", "f", "i", "e", "d", " ",
      "c", "a", "t", "e", "g", "o", "r", "y">>

(***************************************************************************)
(* Sequences.                                                              *)
(***************************************************************************)
Range(s) == {s[i] : i \in 1..Len(s)}

Min(a, b) == IF a <= b THEN a ELSE b

\* the sequences of length 0..n over S
SeqsUpTo(S, n) == UNION {[1..k -> S] : k \in 0..n}

\* no element twice
Injective(s) == \A i, j \in 1..Len(s) : s[i] = s[j] => i = j

\* random.shuffle(s): every reordering of s is a possible outcome
Shuffles(s) ==
    {[i \in 1..Len(s) |-> s[f[i]]] :
        f \in {g \in [1..Len(s) -> 1..Len(s)] : Injective(g)}}

\* s[:k] for k >= 0
Prefix(s, k) == SubSeq(s, 1, Min(k, Len(s)))

(***************************************************************************)
(* Products (one record of fashion_products_tagged.json).  The fields the  *)
(* handler only prints (description, sub_category, brand, image_url,       *)
(* purchase_link) are left out.                                            *)
(***************************************************************************)
RedDress ==
    [product_name |-> "Red Dress", category |-> sDress, gender |-> sWomen,
     color |-> sRed, price |-> 120, currency |-> "PLN",
     occasion_tags |-> <<sParty>>, style_tags |-> <<sClassic>>]

\* same name and category as RedDress, another color: prepare_data.py keeps
\* both, its duplicates are decided on (product_name, category, color).
\* A record without the tag keys (they are read with product.get(..., []))
RedDressDark ==
    [product_name |-> "Red Dress", category |-> sDress, gender |-> sWomen,
     color |-> sDarkRed, price |-> 80, currency |-> "PLN"]

BlueJeans ==
    [product_name |-> "Blue Jeans", category |-> sJeans, gender |-> sMen,
     color |-> sBlue, price |-> 60, currency |-> "PLN",
     occasion_tags |-> <<scasual, sParty>>, style_tags |-> <<>>]

ProductUniverse == {RedDress, RedDressDark, BlueJeans}

\* the catalogs: lists of distinct records
Catalogs == {c \in SeqsUpTo(ProductUniverse, MaxCatalog) : Injective(c)}

\* dict.get(key, default)
Get(d, key, default) == IF key \in DOMAIN d THEN d[key] ELSE default

(***************************************************************************)
(* find_products_by_criteria (app.py:41-87).                               *)
(***************************************************************************)
\* `key in criteria and criteria[key]`
Given(c, key) == key \in DOMAIN c /\ c[key] /= None

\* app.py:51-53
GenderFails(product, c) ==
    /\ Given(c, "gender")
    /\ Lower(c.gender) /= Lower(sAny)
    /\ Lower(product.gender) /= Lower(c.gender)

\* app.py:56-59
CategoryFails(product, c) ==
    /\ Given(c, "category")
    /\ Lower(c.category) /= Lower(sAny)
    /\ Lower(c.category) /= Lower(sFullOutfit)
    /\ Lower(product.category) /= Lower(c.category)

\* app.py:62-63
PriceFails(product, c) ==
    /\ "max_price" \in DOMAIN c
    /\ product.price > c.max_price

\* app.py:66-68
ColorFails(product, c) ==
    /\ Given(c, "color")
    /\ Lower(c.color) /= Lower(sAny)
    /\ ~Contains(Lower(c.color), Lower(product.color))

\* any(tag.lower() in [t.lower() for t in product_tags] for tag in wanted)
AnyTagShared(wanted, product_tags) ==
    \E i \in 1..Len(wanted) :
        Lower(wanted[i]) \in {Lower(product_tags[j]) : j \in 1..Len(product_tags)}

\* app.py:71-74
OccasionFailsSkipsUntagged(product, c) ==
    /\ Given(c, "occasion_tags")
    /\ Get(product, "occasion_tags", <<>>) /= <<>>
    /\ ~AnyTagShared(c.occasion_tags, Get(product, "occasion_tags", <<>>))

OccasionFails(product, c) ==
    /\ Given(c, "occasion_tags")
    /\ ~AnyTagShared(c.occasion_tags, Get(product, "occasion_tags", <<>>))

\* app.py:77-80
StyleFails(product, c) ==
    /\ Given(c, "style_tags")
    /\ ~AnyTagShared(c.style_tags, Get(product, "style_tags", <<>>))

\* whether each `if ...: match = False` statement of the loop body fires
FailsOf(product, c) ==
    [gender |-> GenderFails(product, c),
     category |-> CategoryFails(product, c),
     price |-> PriceFails(product, c),
     color |-> ColorFails(product, c),
     occasion |-> OccasionFails(product, c),
     style |-> StyleFails(product, c)]

\* the order of the six statements in the loop body
PredicateOrder == <<"gender", "category", "price", "color", "occasion", "style">>

\* the flag after one statement
MatchStepOverwrites(match, failed) == ~failed

MatchStep(match, failed) == IF failed THEN FALSE ELSE match

\* the value of `match` after the statements of `order`, from match = True
RECURSIVE MatchAfter(_, _, _)
MatchAfter(order, n, failed) ==
    IF n = 0 THEN TRUE
    ELSE MatchStep(MatchAfter(order, n - 1, failed), failed[order[n]])

\* app.py:48-82
Match(product, c) ==
    MatchAfter(PredicateOrder, Len(PredicateOrder), FailsOf(product, c))

\* found_products before the shuffle (app.py:46-83)
RECURSIVE FoundProducts(_, _)
FoundProducts(catalog, c) ==
    IF catalog = <<>> THEN <<>>
    ELSE (IF Match(Head(catalog), c) THEN <<Head(catalog)>> ELSE <<>>)
         \o FoundProducts(Tail(catalog), c)

\* found_products[:min(len(found_products), num_results)] (app.py:87)
TruncateDropsLast(found, n) == Prefix(found, Min(Len(found), n) - 1)

Truncate(found, n) == Prefix(found, Min(Len(found), n))

\* the possible return values (app.py:86-87)
find_products_by_criteria(catalog, c, n) ==
    {Truncate(s, n) : s \in Shuffles(FoundProducts(catalog, c))}

(***************************************************************************)
(* A direct call of find_products_by_criteria, on any catalog, criteria    *)
(* and limit.                                                              *)
(***************************************************************************)
GenderOptions == {<<>>, [gender |-> None], [gender |-> sANY], [gender |-> swomen]}
CategoryOptions ==
    {<<>>, [category |-> sAny], [category |-> sFullOutfit], [category |-> sdress]}
PriceOptions == {<<>>, [max_price |-> 80], [max_price |-> 120]}
ColorOptions == {[color |-> None], [color |-> sANY], [color |-> sred]}
OccasionOptions == {[occasion_tags |-> <<>>], [occasion_tags |-> <<sboho, sPARTY>>]}
StyleOptions == {<<>>, [style_tags |-> <<sclassic>>]}

CriteriaUniverse ==
    {g @@ k @@ m @@ col @@ o @@ s :
        g \in GenderOptions, k \in CategoryOptions, m \in PriceOptions,
        col \in ColorOptions, o \in OccasionOptions, s \in StyleOptions}

Limits == 0..MaxLimit

NoUser == [gender |-> None]

InitFilter ==
    /\ products_data \in Catalogs
    /\ criteria \in CriteriaUniverse
    /\ num_results \in Limits
    /\ pc = "find"
    /\ potential_products = <<>>
    /\ user = NoUser
    /\ calls = 0
    /\ ai_raw_response = <<>>
    /\ suggested_products_from_ai = <<>>
    /\ idx = 0
    /\ display_products = <<>>
    /\ total_cost_ai_suggested = 0
    /\ shown = <<>>
    /\ products_to_process = <<>>
    /\ updated_products = <<>>

FindProducts ==
    /\ UNCHANGED tagVars
    /\ pc = "find"
    /\ potential_products' \in
           find_products_by_criteria(products_data, criteria, num_results)
    /\ pc' = "returned"
    /\ UNCHANGED <<products_data, criteria, num_results, user, calls,
                   ai_raw_response, suggested_products_from_ai, idx,
                   display_products, total_cost_ai_suggested, shown>>

NextFilter == FindProducts

SpecFilter == InitFilter /\ [][NextFilter]_vars

(***************************************************************************)
(* The handler of the "Find me an outfit!" button (app.py:124-289).        *)
(***************************************************************************)
\* num_results of the retrieval step (app.py:139)
RetrievalLimit == 30

\* the values the budget slider is set to (app.py:101: 50..2000)
Budgets == {80, 200}

\* what is typed in the color box (app.py:113)
ColorInputs == {None, sred}

\* app.py:103-104
gender_options(catalog) ==
    {sAny} \cup {p.gender : p \in {q \in Range(catalog) : q.gender /= sUnspecifiedGender}}

\* app.py:107-108
category_options(catalog) ==
    {sFullOutfit, sAny} \cup
    {p.category : p \in {q \in Range(catalog) : q.category /= sUnspecifiedCategory}}

\* app.py:116-117 and 120-121
all_tags(catalog, key) ==
    UNION {Range(Get(p, key, <<>>)) : p \in Range(catalog)}

\* what a multiselect can return: distinct options, in the order chosen
Selections(options) ==
    {sel \in SeqsUpTo(options, MaxSelected) : Injective(sel)}

\* app.py:129-136
retrieval_criteria_relaxed(u) ==
    [gender |-> IF u.gender /= sAny THEN u.gender ELSE None,
     max_price |-> IF u.category = sFullOutfit THEN 2000 ELSE u.budget,
     category |-> IF u.category /= sFullOutfit /\ u.category /= sAny
                  THEN u.category ELSE None,
     color |-> IF u.color /= None THEN u.color ELSE None,
     occasion_tags |-> u.occasion_tags,
     style_tags |-> u.style_tags]

retrieval_criteria(u) ==
    [gender |-> IF u.gender /= sAny THEN u.gender ELSE None,
     max_price |-> u.budget,
     category |-> IF u.category /= sFullOutfit /\ u.category /= sAny
                  THEN u.category ELSE None,
     color |-> IF u.color /= None THEN u.color ELSE None,
     occasion_tags |-> u.occasion_tags,
     style_tags |-> u.style_tags]

\* one rendered element: st.<kind>(...), what it says, and the value in it
Shown(kind, what, arg) == [kind |-> kind, what |-> what, arg |-> arg]

\* app.py:288-289
ExceptHandler(e) ==
    <<Shown("error", "communication_or_processing", e),
      Shown("error", "check_api_key", "")>>

(***************************************************************************)
(* The text the model answers with is a sequence of pieces: the opening    *)
(* fence (three backticks, json, newline), a left brace, a right brace,    *)
(* the closing fence (newline, three backticks), prose, and the members    *)
(* of a JSON object (standing for their serialisation).                    *)
(***************************************************************************)
Piece(t) == [t |-> t, data |-> <<>>]
OpenFence == Piece("open_fence")
CloseFence == Piece("close_fence")
LBrace == Piece("lbrace")
RBrace == Piece("rbrace")
Prose == Piece("prose")
Members(data) == [t |-> "members", data |-> data]

\* a SuggestedItem as the model echoes it (the fields never read by the
\* handler are left out, color and price are kept)
Wrap(p) ==
    [name |-> p.product_name, category |-> p.category, color |-> p.color,
     price |-> p.price]

Tampered == [Wrap(RedDress) EXCEPT !.price = 999]
LowerCasedName == [Wrap(RedDress) EXCEPT !.name = "red dress"]
NoName == [category |-> sDress, color |-> sRed, price |-> 120]

SuggestionUniverse ==
    {Wrap(p) : p \in ProductUniverse} \cup
    {Tampered, LowerCasedName, NoName}

Payloads == SeqsUpTo(SuggestionUniverse, MaxSuggested)

WellFormed(items) ==
    <<Prose, OpenFence, LBrace, Members([suggested_products |-> items]),
      RBrace, CloseFence>>

Responses ==
    {WellFormed(items) : items \in Payloads} \cup
    {<<Prose>>,                                            \* no fence
     <<OpenFence, Prose, CloseFence>>,                     \* fenced, no object
     <<OpenFence, LBrace, Members([suggested_products |-> <<>>]), RBrace>>,
                                                           \* fence not closed
     <<OpenFence, LBrace, Prose, RBrace, CloseFence>>,     \* not JSON
     <<OpenFence, LBrace, Prose, RBrace, CloseFence,
       OpenFence, LBrace, Members([suggested_products |-> <<>>]), RBrace,
       CloseFence>>,                                       \* first block not JSON
     <<OpenFence, LBrace, RBrace, CloseFence>>}            \* {}

\* re.search of the fenced-object pattern with re.DOTALL (app.py:231): the
\* positions a match can start at
MatchStarts(text) ==
    {i \in 1..Len(text) :
        /\ text[i] = OpenFence
        /\ i + 1 <= Len(text) /\ text[i + 1] = LBrace
        /\ \E j \in (i + 2)..(Len(text) - 1) :
               text[j] = RBrace /\ text[j + 1] = CloseFence}

SetMin(S) == CHOOSE x \in S : \A y \in S : x <= y

\* json_match.group(1): the leftmost start, then the shortest group (.*? is
\* lazy); <<>> stands for no match
JsonGroup(text) ==
    IF MatchStarts(text) = {} THEN <<>>
    ELSE LET i == SetMin(MatchStarts(text))
             j == SetMin({k \in (i + 2)..(Len(text) - 1) :
                             text[k] = RBrace /\ text[k + 1] = CloseFence})
         IN  SubSeq(text, i + 1, j)

\* whether json.loads(json_str) returns
JsonValid(group) ==
    \/ group = <<LBrace, RBrace>>
    \/ Len(group) = 3 /\ group[2].t = "members"

\* json.loads(json_str), for a valid json_str
JsonLoads(group) == IF Len(group) = 3 THEN group[2].data ELSE <<>>

(***************************************************************************)
(* Grounding (app.py:250-260).                                             *)
(***************************************************************************)
\* the condition of the generator at app.py:252, for a suggestion that has
\* both keys
SameNameAndCategory(p, ai_prod) ==
    p.product_name = ai_prod.name /\ p.category = ai_prod.category

\* whether evaluating the generator raises KeyError: ai_prod['name'] is read
\* for the first pool product, ai_prod['category'] once a name is equal
GroundingRaises(ai_prod, pool) ==
    /\ pool /= <<>>
    /\ \/ "name" \notin DOMAIN ai_prod
       \/ /\ "category" \notin DOMAIN ai_prod
          /\ \E i \in 1..Len(pool) : pool[i].product_name = ai_prod.name

MatchingPositions(ai_prod, pool) ==
    {i \in 1..Len(pool) : SameNameAndCategory(pool[i], ai_prod)}

SetMax(S) == CHOOSE x \in S : \A y \in S : x >= y

\* next((p for p in pool if ...), None), where it does not raise; <<>> is None
found_in_db_last(ai_prod, pool) ==
    IF MatchingPositions(ai_prod, pool) = {} THEN <<>>
    ELSE <<pool[SetMax(MatchingPositions(ai_prod, pool))]>>

found_in_db(ai_prod, pool) ==
    IF MatchingPositions(ai_prod, pool) = {} THEN <<>>
    ELSE <<pool[SetMin(MatchingPositions(ai_prod, pool))]>>

\* the price added at app.py:257
PriceAddedFromSuggestion(found, ai_prod) == ai_prod.price

PriceAdded(found, ai_prod) == found.price

(***************************************************************************)
(* The handler, step by step.                                              *)
(***************************************************************************)
Users(catalog) ==
    [gender : gender_options(catalog),
     budget : Budgets,
     category : category_options(catalog),
     color : ColorInputs,
     occasion_tags : Selections(all_tags(catalog, "occasion_tags")),
     style_tags : Selections(all_tags(catalog, "style_tags"))]

Init ==
    /\ products_data \in Catalogs
    /\ user \in Users(products_data)
    /\ pc = "button"
    /\ criteria = <<>>
    /\ num_results = 0
    /\ potential_products = <<>>
    /\ calls = 0
    /\ ai_raw_response = <<>>
    /\ suggested_products_from_ai = <<>>
    /\ idx = 0
    /\ display_products = <<>>
    /\ total_cost_ai_suggested = 0
    /\ shown = <<>>
    /\ products_to_process = <<>>
    /\ updated_products = <<>>

\* where the handler goes when the pool is empty
AfterEmptyPoolGoesOn == "call"

\* app.py:144: st.stop()
AfterEmptyPool == "stopped"

\* app.py:129-144: retrieval; st.stop() when nothing was found
Retrieve ==
    /\ UNCHANGED tagVars
    /\ pc = "button"
    /\ criteria' = retrieval_criteria(user)
    /\ num_results' = RetrievalLimit
    /\ potential_products' \in
           find_products_by_criteria(products_data, criteria', num_results')
    /\ IF potential_products' = <<>>
       THEN /\ shown' = Append(shown, Shown("warning", "no_potential_products", ""))
            /\ pc' = AfterEmptyPool
       ELSE /\ shown' = shown
            /\ pc' = "call"
    /\ UNCHANGED <<products_data, user, calls, ai_raw_response,
                   suggested_products_from_ai, idx, display_products,
                   total_cost_ai_suggested>>

\* app.py:227-228: the model answers
GenerateReturns ==
    /\ UNCHANGED tagVars
    /\ pc = "call"
    /\ calls' = calls + 1
    /\ ai_raw_response' \in Responses
    /\ pc' = "extract"
    /\ UNCHANGED <<products_data, criteria, num_results, potential_products,
                   user, suggested_products_from_ai, idx, display_products,
                   total_cost_ai_suggested, shown>>

\* where the handler goes when generate_content raises
AfterFailedCallRetry == "call"

AfterFailedCall == "except"

\* app.py:227-228 and 287-289: generate_content (or response.text) raises
GenerateRaises ==
    /\ UNCHANGED tagVars
    /\ pc = "call"
    /\ calls' = calls + 1
    /\ shown' = shown \o ExceptHandler("upstream")
    /\ pc' = AfterFailedCall
    /\ UNCHANGED <<products_data, criteria, num_results, potential_products,
                   user, ai_raw_response, suggested_products_from_ai, idx,
                   display_products, total_cost_ai_suggested>>

\* app.py:231-246, 282-284, 287-289
Extract ==
    /\ UNCHANGED tagVars
    /\ pc = "extract"
    /\ LET json_match == JsonGroup(ai_raw_response) IN
       IF json_match = <<>>
       THEN /\ shown' = shown \o
                  <<Shown("error", "not_expected_json_format", ""),
                    Shown("markdown", "raw_response", ai_raw_response)>>
            /\ pc' = "not_json"
            /\ UNCHANGED <<suggested_products_from_ai, idx>>
       ELSE IF ~JsonValid(json_match)
       THEN /\ shown' = shown \o ExceptHandler("JSONDecodeError")
            /\ pc' = "except"
            /\ UNCHANGED <<suggested_products_from_ai, idx>>
       ELSE /\ suggested_products_from_ai' =
                  Get(JsonLoads(json_match), "suggested_products", <<>>)
            /\ shown' = shown \o
                  <<Shown("subheader", "proposal", ""),
                    Shown("markdown", "overall_styling_proposal", ""),
                    Shown("subheader", "selected_products", "")>>
            /\ idx' = 1
            /\ pc' = "validate"
    /\ UNCHANGED <<products_data, criteria, num_results, potential_products,
                   user, calls, ai_raw_response, display_products,
                   total_cost_ai_suggested>>

\* display_products.append(found_in_db) (app.py:256)
AppendedUnlessPresent(products, found) ==
    IF found \in Range(products) THEN products ELSE Append(products, found)

Appended(products, found) == Append(products, found)

\* app.py:250-260 (one iteration), 287-289
ValidateItem ==
    /\ UNCHANGED tagVars
    /\ pc = "validate"
    /\ idx <= Len(suggested_products_from_ai)
    /\ LET ai_prod == suggested_products_from_ai[idx] IN
       IF GroundingRaises(ai_prod, potential_products)
       THEN /\ shown' = shown \o ExceptHandler("KeyError")
            /\ pc' = "except"
            /\ UNCHANGED <<idx, display_products, total_cost_ai_suggested>>
       ELSE LET found == found_in_db(ai_prod, potential_products) IN
            /\ IF found /= <<>>
               THEN /\ display_products' = Appended(display_products, found[1])
                    /\ total_cost_ai_suggested' =
                           total_cost_ai_suggested + PriceAdded(found[1], ai_prod)
                    /\ shown' = shown
               ELSE /\ shown' = Append(shown,
                           Shown("warning", "not_found_in_pool", ai_prod.name))
                    /\ UNCHANGED <<display_products, total_cost_ai_suggested>>
            /\ idx' = idx + 1
            /\ pc' = "validate"
    /\ UNCHANGED <<products_data, criteria, num_results, potential_products,
                   user, calls, ai_raw_response, suggested_products_from_ai>>

\* the condition of the budget warning (app.py:262 and 265)
OverBudgetInAnyMode(u, shownProducts, total) ==
    shownProducts /= <<>> /\ total > u.budget

OverBudget(u, shownProducts, total) ==
    u.category = sFullOutfit /\ shownProducts /= <<>> /\ total > u.budget

\* app.py:262-267
BudgetReport(u, shownProducts, total) ==
    (IF u.category = sFullOutfit /\ shownProducts /= <<>>
     THEN <<Shown("success", "total_cost", total)>> ELSE <<>>)
    \o
    (IF OverBudget(u, shownProducts, total)
     THEN <<Shown("warning", "exceeds_budget", total)>> ELSE <<>>)

\* app.py:269-280
ProductList(shownProducts) ==
    IF shownProducts /= <<>>
    THEN [i \in 1..Len(shownProducts) |->
             Shown("product", shownProducts[i].product_name, shownProducts[i].price)]
    ELSE <<Shown("info", "no_specific_products", "")>>

\* app.py:262-280, after the loop
Present ==
    /\ UNCHANGED tagVars
    /\ pc = "validate"
    /\ idx > Len(suggested_products_from_ai)
    /\ shown' = shown
                \o BudgetReport(user, display_products, total_cost_ai_suggested)
                \o ProductList(display_products)
    /\ pc' = "presented"
    /\ UNCHANGED <<products_data, criteria, num_results, potential_products,
                   user, calls, ai_raw_response, suggested_products_from_ai,
                   idx, display_products, total_cost_ai_suggested>>

Next ==
    \/ Retrieve
    \/ GenerateReturns
    \/ GenerateRaises
    \/ Extract
    \/ ValidateItem
    \/ Present

Spec == Init /\ [][Next]_vars

(***************************************************************************)
(* The handler's contract.                                                 *)
(***************************************************************************)
RECURSIVE SumPrices(_)
SumPrices(products) ==
    IF products = <<>> THEN 0
    ELSE products[1].price + SumPrices(Tail(products))

\* the elements of `rendered` of one kind (and saying `what`), in order
RECURSIVE OfKind(_, _)
OfKind(rendered, kind) ==
    IF rendered = <<>> THEN <<>>
    ELSE (IF Head(rendered).kind = kind THEN <<Head(rendered)>> ELSE <<>>)
         \o OfKind(Tail(rendered), kind)

RECURSIVE OfKindSaying(_, _, _)
OfKindSaying(rendered, kind, what) ==
    IF rendered = <<>> THEN <<>>
    ELSE (IF Head(rendered).kind = kind /\ Head(rendered).what = what
          THEN <<Head(rendered)>> ELSE <<>>)
         \o OfKindSaying(Tail(rendered), kind, what)

ShownAs(kind, what) == OfKindSaying(shown, kind, what)

ShownKind(kind) == OfKind(shown, kind)

HasIdentity(item) == "name" \in DOMAIN item /\ "category" \in DOMAIN item

Grounds(item, p) ==
    HasIdentity(item) /\ item.name = p.product_name /\ item.category = p.category

InPool(item) == \E p \in Range(potential_products) : Grounds(item, p)

FullOutfitMode == user.category = sFullOutfit

\* C3: every displayed product is an element of the candidate pool whose
\* (product_name, category) equals a suggestion's (name, category) exactly;
\* the running total and the displayed prices are the pool's prices, never
\* the price the suggestion carries.
C3_GroundedInPool ==
    /\ \A i \in 1..Len(display_products) :
           /\ display_products[i] \in Range(potential_products)
           /\ \E j \in 1..Len(suggested_products_from_ai) :
                  j < idx /\ Grounds(suggested_products_from_ai[j], display_products[i])
    /\ total_cost_ai_suggested = SumPrices(display_products)
    /\ pc = "presented" =>
           /\ ShownKind("product") =
                  [i \in 1..Len(display_products) |->
                      Shown("product", display_products[i].product_name,
                            display_products[i].price)]
           /\ \A i \in 1..Len(ShownAs("success", "total_cost")) :
                  ShownAs("success", "total_cost")[i].arg = SumPrices(display_products)

C3_Witness ==
    /\ pc = "presented"
    /\ suggested_products_from_ai = <<Tampered, LowerCasedName>>
    /\ display_products = <<RedDress>>
    /\ total_cost_ai_suggested = 120
    /\ FullOutfitMode

\* the suggestions are pool products wrapped as suggestions
DrawnFromPool ==
    \A j \in 1..Len(suggested_products_from_ai) :
        \E p \in Range(potential_products) : suggested_products_from_ai[j] = Wrap(p)

Unwrapped(item) == CHOOSE p \in Range(potential_products) : item = Wrap(p)

FirstInPool(item) ==
    potential_products[SetMin({i \in 1..Len(potential_products) :
                                  Grounds(item, potential_products[i])})]

IdentityUnique(pool) ==
    \A i, j \in 1..Len(pool) :
        (pool[i].product_name = pool[j].product_name
         /\ pool[i].category = pool[j].category) => i = j

NoGroundingWarning == ShownAs("warning", "not_found_in_pool") = <<>>

\* C4 as stated: validating pool products wrapped as suggestions yields
\* exactly those products, in order, with no warning, also when two pool
\* products share (name, category).
C4_IdempotentOnGrounded ==
    (pc = "presented" /\ DrawnFromPool) =>
        /\ display_products =
               [j \in 1..Len(suggested_products_from_ai) |->
                   Unwrapped(suggested_products_from_ai[j])]
        /\ NoGroundingWarning

\* C4 amended: validating pool products wrapped as suggestions yields, with
\* no warning and in order, for each suggestion the first pool product with
\* its (name, category); these are exactly the wrapped products when the
\* (name, category) pairs of the pool are pairwise distinct.
C4_IdempotentWhenIdentityUnique ==
    (pc = "presented" /\ DrawnFromPool) =>
        /\ display_products =
               [j \in 1..Len(suggested_products_from_ai) |->
                   FirstInPool(suggested_products_from_ai[j])]
        /\ NoGroundingWarning
        /\ IdentityUnique(potential_products) =>
               display_products =
                   [j \in 1..Len(suggested_products_from_ai) |->
                       Unwrapped(suggested_products_from_ai[j])]

C4_Witness ==
    /\ pc = "presented" /\ DrawnFromPool
    /\ IdentityUnique(potential_products)
    /\ Len(potential_products) = 2
    /\ Len(suggested_products_from_ai) = 2
    /\ suggested_products_from_ai[1] = Wrap(potential_products[2])
    /\ suggested_products_from_ai[2] = Wrap(potential_products[1])

\* the suggestions the grounding loop has to handle
Ungrounded == {j \in 1..Len(suggested_products_from_ai) :
                  ~InPool(suggested_products_from_ai[j])}

\* C5: once the suggestions are parsed, an ungrounded suggestion never
\* aborts the query: the handler never ends in the exception handler, and
\* it presents one warning per ungrounded item and every other item, also
\* for an item that lacks its name or category.
C5_UngroundedNeverAborts ==
    /\ pc = "except" => idx = 0
    /\ pc = "presented" =>
           /\ Len(ShownAs("warning", "not_found_in_pool")) = Cardinality(Ungrounded)
           /\ Len(display_products) + Cardinality(Ungrounded)
                  = Len(suggested_products_from_ai)

BudgetFlagged == ShownAs("warning", "exceeds_budget") /= <<>>

\* C6: the budget overage is flagged iff the query is in full-outfit mode
\* and the sum of the validated items' pool prices is greater than the
\* budget; never in another mode, never at a sum equal to the budget,
\* never without a validated item, and never before the items are presented.
C6_FlaggedIffOutfitOverBudget ==
    /\ pc = "presented" =>
           (BudgetFlagged <=>
                (FullOutfitMode /\ SumPrices(display_products) > user.budget))
    /\ pc /= "presented" => ~BudgetFlagged
    /\ BudgetFlagged => display_products /= <<>>

C6_Witness ==
    /\ pc = "presented" /\ FullOutfitMode /\ BudgetFlagged
    /\ Len(display_products) = 2
    /\ \A i \in 1..Len(display_products) : display_products[i].price <= user.budget

\* the model answered, and its answer was not parsed
ExtractionFailed ==
    /\ pc \in {"not_json", "except"}
    /\ ai_raw_response /= <<>>
    /\ idx = 0

RawSurfaced ==
    \E k \in 1..Len(shown) :
        /\ shown[k].what = "raw_response"
        /\ shown[k].arg = ai_raw_response

\* C7: when the answer holds no fenced block, or a fenced block that is not
\* valid JSON, the query ends without validating or displaying an item, and
\* the raw answer is shown.
C7_ExtractionFailureShowsRaw ==
    ExtractionFailed =>
        /\ display_products = <<>>
        /\ ShownKind("product") = <<>>
        /\ RawSurfaced

\* C8: the max_price passed to retrieval is the raw budget in every mode,
\* and every product of the candidate pool has price <= budget, also in
\* full-outfit mode, where the category predicate is skipped.
C8_PoolWithinBudget ==
    pc /= "button" =>
        /\ "max_price" \in DOMAIN criteria /\ criteria.max_price = user.budget
        /\ \A p \in Range(potential_products) : p.price <= user.budget
        /\ FullOutfitMode => criteria.category = None

C8_Witness ==
    /\ pc = "call" /\ FullOutfitMode
    /\ \E p \in Range(products_data) : p.price > user.budget
    /\ \E p \in Range(potential_products) : p.price = user.budget

UpstreamFailed == calls >= 1 /\ ai_raw_response = <<>>

\* C10: generate_content is invoked at most once per query; when it raises,
\* the query ends there with the error shown: no step follows, so no second
\* call, no extraction, no validation and no displayed item.
C10_OneCallNoRetry ==
    /\ [](calls <= 1)
    /\ [](UpstreamFailed =>
            /\ pc = "except"
            /\ ShownAs("error", "communication_or_processing") /= <<>>
            /\ idx = 0 /\ suggested_products_from_ai = <<>>
            /\ display_products = <<>> /\ ShownKind("product") = <<>>)
    /\ [][~UpstreamFailed]_vars

C10_Witness == UpstreamFailed /\ pc = "except" /\ calls = 1

\* the retrieval step has run and returned no product
PoolEmpty == pc /= "button" /\ potential_products = <<>>

\* C11: when find_products_by_criteria returns an empty pool, the query
\* stops there with the no-results warning as its only output: no step
\* follows, so the filter is not run again and generate_content is never
\* invoked; and the query stops this way only on an empty pool.
C11_EmptyPoolIsTerminal ==
    /\ [](PoolEmpty =>
            /\ pc = "stopped"
            /\ shown = <<Shown("warning", "no_potential_products", "")>>
            /\ calls = 0 /\ ai_raw_response = <<>>
            /\ suggested_products_from_ai = <<>> /\ display_products = <<>>)
    /\ [](pc = "stopped" => PoolEmpty)
    /\ [][~PoolEmpty]_vars

C11_Witness ==
    /\ PoolEmpty /\ pc = "stopped" /\ calls = 0
    /\ products_data /= <<>>
    /\ criteria = retrieval_criteria(user)

\* C12: in every mode, also when the category is not the full-outfit
\* wildcard, a query that presents at least one validated item reports the
\* sum of the validated items' prices, once.
C12_TotalReportedInEveryMode ==
    (pc = "presented" /\ display_products /= <<>>) =>
        ShownAs("success", "total_cost") =
            <<Shown("success", "total_cost", SumPrices(display_products))>>

\* the handler has ended: st.stop(), the except handler, the else branch of
\* the extraction, or the end of the script
Terminated == pc \in {"stopped", "except", "not_json", "presented"}

\* the stage the handler is about to run: filter, serialize and model call,
\* extract, validate, reconcile and present; 6 is the handler having ended
StageOf(p) ==
    CASE p = "button" -> 1
      [] p = "call" -> 2
      [] p = "extract" -> 3
      [] p = "validate" -> 4
      [] OTHER -> 6

\* the terminal outcomes a query can end in
Outcomes ==
    {o \in {"no_candidates", "upstream_failure", "extraction_failure", "presented"} :
        CASE o = "no_candidates" -> pc = "stopped" /\ PoolEmpty
          [] o = "upstream_failure" -> pc = "except" /\ UpstreamFailed
          [] o = "extraction_failure" -> ExtractionFailed
          [] o = "presented" -> pc = "presented"}

\* C14: the handler runs its stages in the order filter, serialize and
\* model call, extract, validate, reconcile: every step moves to a later
\* stage or validates the next suggestion, no step follows the end of the
\* handler, the model is called at most once; and an ended handler has
\* exactly one of the outcomes no candidates, upstream failure, extraction
\* failure, presented result.
C14_StagesInOrderOneOutcome ==
    /\ [](Terminated => Cardinality(Outcomes) = 1)
    /\ [](~Terminated => Outcomes = {})
    /\ [](calls <= 1)
    /\ [][\/ StageOf(pc) < StageOf(pc')
          \/ pc = "validate" /\ pc' = "validate" /\ idx' = idx + 1]_vars
    /\ [][~Terminated]_vars

\* the pool product a suggestion selects: the first one with its
\* (name, category), cf. C4
Selects(item, p) == InPool(item) /\ FirstInPool(item) = p

\* the products selected by the first n suggestions, in suggestion order
RECURSIVE SelectedByFirst(_)
SelectedByFirst(n) ==
    IF n = 0 THEN <<>>
    ELSE SelectedByFirst(n - 1) \o
         (IF InPool(suggested_products_from_ai[n])
          THEN <<FirstInPool(suggested_products_from_ai[n])>> ELSE <<>>)

Times(s, x) == Cardinality({i \in 1..Len(s) : s[i] = x})

\* the prices of the first n pool products, each times its appearances in
\* display_products
RECURSIVE PriceTimesAppearances(_)
PriceTimesAppearances(n) ==
    IF n = 0 THEN 0
    ELSE PriceTimesAppearances(n - 1)
         + potential_products[n].price
           * Times(display_products, potential_products[n])

IsAny(s) == Lower(s) = <<"a", "n", "y">>
IsFullOutfit(s) == Lower(s) = <<"f", "u", "l", "l", " ", "o", "u", "t", "f", "i", "t">>

Absent(c, key) == key \notin DOMAIN c \/ c[key] = <<>>

GenderWild(c) == Absent(c, "gender") \/ IsAny(c.gender)
CategoryWild(c) == Absent(c, "category") \/ IsAny(c.category) \/ IsFullOutfit(c.category)
ColorWild(c) == Absent(c, "color") \/ IsAny(c.color)
OccasionWild(c) == Absent(c, "occasion_tags")
StyleWild(c) == Absent(c, "style_tags")

TagsOf(p, key) == IF key \in DOMAIN p THEN Range(p[key]) ELSE {}

SharesTag(p, key, wanted) ==
    \E t \in TagsOf(p, key) : \E w \in Range(wanted) : Lower(t) = Lower(w)

\* p satisfies every predicate of c that is not a wildcard
SatisfiesActive(p, c) ==
    /\ GenderWild(c) \/ Lower(p.gender) = Lower(c.gender)
    /\ CategoryWild(c) \/ Lower(p.category) = Lower(c.category)
    /\ "max_price" \notin DOMAIN c \/ p.price <= c.max_price
    /\ ColorWild(c) \/ Contains(Lower(c.color), Lower(p.color))
    /\ OccasionWild(c) \/ SharesTag(p, "occasion_tags", c.occasion_tags)
    /\ StyleWild(c) \/ SharesTag(p, "style_tags", c.style_tags)

OnlyPriceActive(c) ==
    /\ "max_price" \in DOMAIN c
    /\ GenderWild(c) /\ CategoryWild(c) /\ ColorWild(c)
    /\ OccasionWild(c) /\ StyleWild(c)

Affordable == {p \in Range(products_data) : p.price <= criteria.max_price}

\* every order in which the six statements could be evaluated
AllOrders == Shuffles(PredicateOrder)

OrderIndependent ==
    \A p \in Range(products_data) :
        LET failed == FailsOf(p, criteria)
            inCodeOrder == Match(p, criteria)
        IN  \A order \in AllOrders :
                MatchAfter(order, Len(order), failed) = inCodeOrder

\* C1 as stated: with only max_price = P active, find_products_by_criteria
\* returns exactly the catalog products with price <= P, for every limit,
\* whatever the order of the predicates.
C1_ExactlyAffordable ==
    (pc = "returned" /\ OnlyPriceActive(criteria)) =>
        /\ Range(potential_products) = Affordable
        /\ OrderIndependent

\* C1 amended: with only max_price = P active, the result holds
\* min(limit, n) distinct products out of the n catalog products with
\* price <= P, and nothing else; it is exactly that set when n <= limit.
\* The order of the predicates does not matter.
C1_AffordableUpToLimit ==
    (pc = "returned" /\ OnlyPriceActive(criteria)) =>
        /\ Range(potential_products) \subseteq Affordable
        /\ Injective(potential_products)
        /\ Len(potential_products) = Min(Cardinality(Affordable), num_results)
        /\ Cardinality(Affordable) <= num_results =>
               Range(potential_products) = Affordable
        /\ OrderIndependent

C1_Witness ==
    /\ pc = "returned" /\ OnlyPriceActive(criteria)
    /\ potential_products /= <<>>
    /\ Len(potential_products) < Len(products_data)
    /\ Range(potential_products) = Affordable

AnySatisfies == \E p \in Range(products_data) : SatisfiesActive(p, criteria)

\* C2 as stated: the result has at most `limit` elements, and is empty iff
\* no catalog product satisfies all active predicates.
C2_EmptyIffNoMatch ==
    pc = "returned" =>
        /\ Len(potential_products) <= num_results
        /\ potential_products = <<>> <=> ~AnySatisfies

\* C2 amended: the result has at most `limit` elements; for a limit of at
\* least 1 it is empty iff no catalog product satisfies all active
\* predicates, and for a limit of 0 it is always empty.
C2_EmptyIffNoMatchOrZeroLimit ==
    pc = "returned" =>
        /\ Len(potential_products) <= num_results
        /\ num_results >= 1 => (potential_products = <<>> <=> ~AnySatisfies)
        /\ num_results = 0 => potential_products = <<>>

C2_Witness ==
    /\ pc = "returned" /\ num_results = 1
    /\ Len(potential_products) = 1
    /\ Cardinality({p \in Range(products_data) : SatisfiesActive(p, criteria)}) = 2
    /\ ~OnlyPriceActive(criteria)

\* C9: when occasion_tags (likewise style_tags) is a non-empty criterion,
\* every returned product has a tag equal, ignoring case, to one of the
\* criterion's tags; a product without tags is never returned.
C9_ReturnedShareATag ==
    pc = "returned" =>
        /\ ~OccasionWild(criteria) =>
               \A p \in Range(potential_products) :
                   SharesTag(p, "occasion_tags", criteria.occasion_tags)
        /\ ~StyleWild(criteria) =>
               \A p \in Range(potential_products) :
                   SharesTag(p, "style_tags", criteria.style_tags)

C9_Witness ==
    /\ pc = "returned"
    /\ ~OccasionWild(criteria) /\ ~StyleWild(criteria)
    /\ potential_products /= <<>>
    /\ \E p \in Range(products_data) : p \notin Range(potential_products)
    /\ \E p \in Range(potential_products) :
           sPARTY \in Range(criteria.occasion_tags) /\ sParty \in TagsOf(p, "occasion_tags")

(***************************************************************************)
(* The offline tagging script (generate_tags_with_gemini.py).  The pause   *)
(* after every BATCH_SIZE products (lines 111-113) changes no data and is  *)
(* left out.                                                               *)
(***************************************************************************)
\* generate_tags_with_gemini.py:33
MAX_PRODUCTS_TO_PROCESS == 240

sCasual == <<"C", "a", "s", "u", "a", "l">>

\* the tag lists the model may answer with
OccasionAnswers == SeqsUpTo({sCasual, scasual, sParty}, MaxTags)
StyleAnswers == SeqsUpTo({sClassic}, MaxTags)

\* the JSON objects the model may answer with; the last ones lack a key
TagPayloads ==
    {[occasion_tags |-> o, style_tags |-> st] :
        o \in OccasionAnswers, st \in StyleAnswers}
    \cup {[occasion_tags |-> <<sCasual, scasual>>], [style_tags |-> <<sClassic>>]}

\* what model.generate_content(prompt) does (line 70): it raises, or it
\* returns a text
ModelAnswers ==
    {[raises |-> TRUE, text |-> <<>>]} \cup
    {[raises |-> FALSE, text |-> t] :
        t \in {<<Prose, OpenFence, LBrace, Members(d), RBrace, CloseFence>> :
                  d \in TagPayloads}
              \cup {<<Prose>>,
                    <<OpenFence, LBrace, Prose, RBrace, CloseFence>>,
                    <<OpenFence, LBrace, RBrace, CloseFence>>}}

\* generate_tags_with_gemini.py:69-84: the pair (occasion_tags, style_tags)
generate_tags_for_product(answer) ==
    IF answer.raises THEN <<<<>>, <<>>>>
    ELSE LET json_match == JsonGroup(answer.text) IN
         IF json_match = <<>> THEN <<<<>>, <<>>>>
         ELSE IF ~JsonValid(json_match) THEN <<<<>>, <<>>>>
         ELSE LET parsed_data == JsonLoads(json_match) IN
              <<Get(parsed_data, "occasion_tags", <<>>),
                Get(parsed_data, "style_tags", <<>>)>>

\* list(set(tags)): the distinct elements of tags (compared with ==), in
\* any order
list_of_set(tags) ==
    {l \in [1..Cardinality(Range(tags)) -> Range(tags)] : Injective(l)}

\* the state of the query handler, which the script does not touch
appVars == <<products_data, criteria, num_results, potential_products, user,
             calls, ai_raw_response, suggested_products_from_ai, idx,
             display_products, total_cost_ai_suggested, shown>>

\* generate_tags_with_gemini.py:92-100
InitTags ==
    /\ \E products \in Catalogs :
           products_to_process = Prefix(products, MAX_PRODUCTS_TO_PROCESS)
    /\ updated_products = <<>>
    /\ pc = "tagging"
    /\ products_data = <<>>
    /\ criteria = <<>>
    /\ num_results = 0
    /\ potential_products = <<>>
    /\ user = NoUser
    /\ calls = 0
    /\ ai_raw_response = <<>>
    /\ suggested_products_from_ai = <<>>
    /\ idx = 0
    /\ display_products = <<>>
    /\ total_cost_ai_suggested = 0
    /\ shown = <<>>

\* generate_tags_with_gemini.py:101-109: one iteration; the product dict is
\* changed in place, so the element of products_to_process changes too
TagProduct ==
    /\ pc = "tagging"
    /\ Len(updated_products) < Len(products_to_process)
    /\ LET i == Len(updated_products) + 1
           product == products_to_process[i]
       IN  \E answer \in ModelAnswers :
               LET tags == generate_tags_for_product(answer) IN
               \E occasion_tags \in list_of_set(tags[1]),
                  style_tags \in list_of_set(tags[2]) :
                   LET tagged == [occasion_tags |-> occasion_tags,
                                  style_tags |-> style_tags] @@ product
                   IN  /\ products_to_process' =
                              [products_to_process EXCEPT ![i] = tagged]
                       /\ updated_products' = Append(updated_products, tagged)
    /\ pc' = "tagging"
    /\ UNCHANGED appVars

\* generate_tags_with_gemini.py:115-118, after the loop
SaveTagged ==
    /\ pc = "tagging"
    /\ Len(updated_products) = Len(products_to_process)
    /\ pc' = "saved"
    /\ UNCHANGED <<products_to_process, updated_products>>
    /\ UNCHANGED appVars

NextTags ==
    \/ TagProduct
    \/ SaveTagged

SpecTags == InitTags /\ [][NextTags]_vars

NoTwoEqualIgnoringCase(tags) ==
    \A a, b \in 1..Len(tags) : Lower(tags[a]) = Lower(tags[b]) => a = b

\* C13: every product the tagging loop has processed carries occasion_tags
\* and style_tags in which no two tags are equal ignoring case, whatever
\* tag lists the model answered with.
C13_TagsUniqueIgnoringCase ==
    \A k \in 1..Len(updated_products) :
        /\ NoTwoEqualIgnoringCase(updated_products[k].occasion_tags)
        /\ NoTwoEqualIgnoringCase(updated_products[k].style_tags)

====
